---------------------------- MODULE Spec2Model ----------------------------
(***************************************************************************)
(* A model of the PCA9685 PWM/servo driver of novaGround                   *)
(* (src/src/interfaces/servo.cpp, class Adafruit_PWMServoDriver).          *)
(*                                                                         *)
(* The chip is modelled as the register file behind the I2C transport: a   *)
(* byte per register address, a write stores the byte and a read returns   *)
(* the byte last stored.  Every public method of the driver is an operator *)
(* from a machine record (registers, bus handle, oscillator calibration,   *)
(* the transactions issued so far) to the machine after the call, built    *)
(* from read8/write8 exactly in the order of the source.  An action of the *)
(* specification is one whole serialized call of a public method.          *)
(*                                                                         *)
(* Two further specifications have threads: SpecRace runs two setPWMFreq   *)
(* calls transaction by transaction, and SpecTelemetry runs the sampling   *)
(* and publishing loops of src/src/main.cpp statement by statement.        *)
(***************************************************************************)
EXTENDS Integers, Sequences, FiniteSets, TLC

VARIABLES
    regs,              \* the chip's register file: address 0..255 -> byte
    fd,                \* Adafruit_PWMServoDriver::fd, the wiringPi bus handle
    oscillator_freq,   \* Adafruit_PWMServoDriver::_oscillator_freq
    log,               \* bus transactions and delays of the last call, in order
    calls,             \* setPWM invocations made by the last call, in order
    ret,               \* values returned by the last call (<<>> for void)
    call,              \* the last public call: its name and arguments
    pre,               \* registers, handle and calibration before the last call
    prior,             \* the call a getPWM read-back follows (else no call)
    pc,                \* where each running thread stands (none: serialized calls)
    local,             \* the local variables of each running thread
    sched,             \* the threads that issued the entries of log, in order
    data,              \* main.cpp: vector<sensor_datapoint> data (the ids)
    data_access        \* main.cpp: boost::shared_mutex _data_access

vars == <<regs, fd, oscillator_freq, log, calls, ret, call, pre, prior,
          pc, local, sched, data, data_access>>

\* The variables of the driver object and its chip, and those of threads.
drivervars == <<regs, fd, oscillator_freq, log, calls, ret, call, pre, prior>>
threadvars == <<pc, local, sched, data, data_access>>

---------------------------------------------------------------------------
(* Register map and bit masks (servo.hpp, PCA9685 datasheet).              *)

PCA9685_MODE1 == 0
PCA9685_MODE2 == 1
PCA9685_LED0_ON_L == 6
PCA9685_PRESCALE == 254

MODE1_SLEEP == 16
MODE1_AI == 32
MODE1_EXTCLK == 64
MODE1_RESTART == 128
MODE2_OUTDRV == 4

FREQUENCY_OSCILLATOR == 25000000
PCA9685_PRESCALE_MIN == 3
PCA9685_PRESCALE_MAX == 255

\* wiringPiI2CSetup and wiringPiI2CReadReg8 return -1 on failure.
FD_FAILED == 0 - 1
\* A handle wiringPiI2CSetup returns on success (any value >= 0).
FD_OPEN == 3

---------------------------------------------------------------------------
(* Fixed-width integer arithmetic of the C++ types.                        *)

ToU8(x) == x % 256
ToU16(x) == x % 65536

RECURSIVE BitAnd(_, _)
BitAnd(a, b) ==
    IF a = 0 \/ b = 0 THEN 0
    ELSE (a % 2) * (b % 2) + 2 * BitAnd(a \div 2, b \div 2)

RECURSIVE BitOr(_, _)
BitOr(a, b) ==
    IF a = 0 THEN b
    ELSE IF b = 0 THEN a
    ELSE (IF a % 2 = 1 \/ b % 2 = 1 THEN 1 ELSE 0) + 2 * BitOr(a \div 2, b \div 2)

\* ~mask, restricted to the low 16 bits: every operand it meets is below 2^16
\* and every result is converted to uint8_t or uint16_t.
BitNot(mask) == 65535 - mask

HasBit(v, mask) == BitAnd(v, mask) = mask

---------------------------------------------------------------------------
(* The low level I2C interface.                                            *)

Machine == [regs |-> regs, fd |-> fd, osc |-> oscillator_freq,
            log |-> <<>>, calls |-> <<>>, ret |-> <<>>]

\* The byte read8(addr) returns: the register, or (uint8_t)-1 when the
\* transport call fails on an invalid handle.
read8val(s, addr) ==
    IF s.fd < 0 THEN ToU8(FD_FAILED) ELSE s.regs[ToU8(addr)]

\* The machine after read8(addr): the transaction is on the bus.
read8(s, addr) ==
    [s EXCEPT !.log = Append(@, <<"r", ToU8(addr), read8val(s, addr)>>)]

\* write8(addr, d): both parameters are uint8_t; on an invalid handle the
\* transport call fails and no register changes.
write8(s, addr, d) ==
    [s EXCEPT !.regs = IF s.fd < 0 THEN @ ELSE [@ EXCEPT ![ToU8(addr)] = ToU8(d)],
              !.log = Append(@, <<"w", ToU8(addr), ToU8(d)>>)]

delay(s, ms) == [s EXCEPT !.log = Append(@, <<"d", ms, 0>>)]

---------------------------------------------------------------------------
(* Lifecycle and mode control.                                             *)

reset(s) == delay(write8(s, PCA9685_MODE1, MODE1_RESTART), 10)

sleep(s) ==
    LET awake == read8val(s, PCA9685_MODE1)
        s1 == read8(s, PCA9685_MODE1)
        sleepv == BitOr(awake, MODE1_SLEEP)
    IN  delay(write8(s1, PCA9685_MODE1, sleepv), 5)

wakeup(s) ==
    LET sleepv == read8val(s, PCA9685_MODE1)
        s1 == read8(s, PCA9685_MODE1)
        wakeupv == BitAnd(sleepv, BitNot(MODE1_SLEEP))
    IN  write8(s1, PCA9685_MODE1, wakeupv)

\* A slip: the sleep value is written alone, the other mode bits are lost.
SleepModeOnly(oldmode) == MODE1_SLEEP

\* A slip: the sleep bit is not set before the prescaler is written.
SleepModeAwake(oldmode) == ToU8(BitAnd(oldmode, BitNot(MODE1_RESTART)))

\* (oldmode & ~MODE1_RESTART) | MODE1_SLEEP: the value written to put the
\* chip to sleep.
SleepMode(oldmode) ==
    ToU8(BitOr(BitAnd(oldmode, BitNot(MODE1_RESTART)), MODE1_SLEEP))

\* A slip: the sleep bit is not cleared in the final write.
ExtClkStartModeAsleep(newmode) ==
    BitOr(BitOr(newmode, MODE1_RESTART), MODE1_AI)

\* (newmode & ~MODE1_SLEEP) | MODE1_RESTART | MODE1_AI: the final write of
\* setExtClk.
ExtClkStartMode(newmode) ==
    BitOr(BitOr(BitAnd(newmode, BitNot(MODE1_SLEEP)), MODE1_RESTART), MODE1_AI)

setExtClk(s, prescale) ==
    LET oldmode == read8val(s, PCA9685_MODE1)
        s1 == read8(s, PCA9685_MODE1)
        newmode == SleepMode(oldmode)
        s2 == write8(s1, PCA9685_MODE1, newmode)
        newmode2 == ToU8(BitOr(newmode, MODE1_EXTCLK))
        s3 == write8(s2, PCA9685_MODE1, newmode2)
        s4 == write8(s3, PCA9685_PRESCALE, prescale)
        s5 == delay(s4, 5)
        s6 == write8(s5, PCA9685_MODE1, ExtClkStartMode(newmode2))
    IN  read8(s6, PCA9685_MODE1)     \* ENABLE_DEBUG_OUTPUT: "Mode now 0x.."

setOutputMode(s, totempole) ==
    LET oldmode == read8val(s, PCA9685_MODE2)
        s1 == read8(s, PCA9685_MODE2)
        newmode == IF totempole THEN BitOr(oldmode, MODE2_OUTDRV)
                   ELSE BitAnd(oldmode, BitNot(MODE2_OUTDRV))
    IN  write8(s1, PCA9685_MODE2, newmode)

readPrescale(s) ==
    [read8(s, PCA9685_PRESCALE) EXCEPT !.ret = <<read8val(s, PCA9685_PRESCALE)>>]

getOscillatorFrequency(s) == [s EXCEPT !.ret = <<s.osc>>]

setOscillatorFrequency(s, freq) == [s EXCEPT !.osc = freq]

---------------------------------------------------------------------------
(* IEEE-754 double arithmetic, as setPWMFreq and writeMicroseconds use it. *)
(* A 53-bit significand is a pair <<hi, lo>> standing for hi * 2^27 + lo;  *)
(* a double is [m |-> significand, k |-> scale], standing for m * 2^(-k)   *)
(* with 2^52 <= m < 2^53.  Every operation rounds to nearest, ties to      *)
(* even.                                                                   *)

BigBase == 2^27
\* x * 2^nb + digit, x * k, x >= y, x - y, x + 1 on pairs.
BigShl(x, nb, digit) ==
    LET lo == x[2] * 2^nb + digit
    IN  <<x[1] * 2^nb + (lo \div BigBase), lo % BigBase>>
BigMul(x, k) ==
    LET lo == x[2] * k
    IN  <<x[1] * k + (lo \div BigBase), lo % BigBase>>
BigGeq(x, y) == x[1] > y[1] \/ (x[1] = y[1] /\ x[2] >= y[2])
BigSub(x, y) ==
    IF x[2] >= y[2] THEN <<x[1] - y[1], x[2] - y[2]>>
    ELSE <<x[1] - y[1] - 1, x[2] + BigBase - y[2]>>
BigInc(x) == IF x[2] + 1 = BigBase THEN <<x[1] + 1, 0>> ELSE <<x[1], x[2] + 1>>

RECURSIVE BitLen(_)
BitLen(n) == IF n = 0 THEN 0 ELSE 1 + BitLen(n \div 2)

\* Quotient bits of d / o (integers, o < 2^27), up to four a step, until the
\* significand g.m has 53 bits; g.r is the remainder, g.k the number of
\* fraction bits.
RECURSIVE DivBits(_, _)
DivBits(g, o) ==
    IF g.m[1] >= 2^25 THEN g
    ELSE LET nb == IF g.m[1] < 2^22 THEN 4 ELSE IF g.m[1] < 2^23 THEN 3
                   ELSE IF g.m[1] < 2^24 THEN 2 ELSE 1
             r2 == g.r * 2^nb
         IN  DivBits([m |-> BigShl(g.m, nb, r2 \div o), r |-> r2 % o,
                      k |-> g.k + nb], o)

\* (double)d / (double)o for integers d, o > 0, rounded to nearest, ties to
\* even: the significand m (53 bits) and k with quotient = m / 2^k.
DoubleDiv(d, o) ==
    LET q0 == d \div o
        g == DivBits([m |-> <<q0 \div BigBase, q0 % BigBase>>, r |-> d % o,
                      k |-> 0], o)
        up == 2 * g.r > o \/ (2 * g.r = o /\ g.m[2] % 2 = 1)
        m1 == IF up THEN BigInc(g.m) ELSE g.m
    IN  IF m1[1] = 2^26 THEN [m |-> <<2^25, 0>>, k |-> g.k - 1]
        ELSE [m |-> m1, k |-> g.k]

\* The integer part a.ip of u * 2^i / m and the remainder a.r, by long
\* division from a = [r |-> u, ip |-> 0], up to four bits a step.
RECURSIVE IntPart(_, _, _)
IntPart(a, i, m) ==
    IF i = 0 THEN a
    ELSE LET nb == IF i < 4 THEN i ELSE 4
             r2 == BigShl(a.r, nb, 0)
             digit == Cardinality({c \in 1..(2^nb - 1) : BigGeq(r2, BigMul(m, c))})
         IN  IntPart([r |-> BigSub(r2, BigMul(m, digit)),
                      ip |-> a.ip * 2^nb + digit], i - nb, m)

\* Whether rounding the quotient ip + r / m to 53 significant bits carries
\* into its integer part: with s - 1 fraction bits kept, 2^s * (m - r) <= m
\* (a tie rounds up, the last bit kept being 1).
FracCarry(r, ip, m) ==
    LET s == 54 - BitLen(ip)
        e == BigSub(m, r)
        fl == IF s >= 27 THEN m[1] \div 2^(s - 27)
              ELSE m[1] * 2^(27 - s) + (m[2] \div 2^s)
    IN  e[1] = 0 /\ e[2] <= fl

\* s / 2^drop on pairs, rounded to nearest, ties to even.
BigShrRound(s, drop) ==
    IF drop = 0 THEN s
    ELSE LET p == 2^drop
             rem == s[2] % p
             v == <<s[1] \div p, (s[1] % p) * 2^(27 - drop) + (s[2] \div p)>>
             up == 2 * rem > p \/ (2 * rem = p /\ v[2] % 2 = 1)
         IN  IF up THEN BigInc(v) ELSE v

\* x + 0.5 for a double 0 < x < 2^25: the sum is rounded to 53 bits.
DoubleAddHalf(x) ==
    LET s == <<x.m[1] + 2^(x.k - 28), x.m[2]>>
        drop == IF s[1] < 2^26 THEN 0 ELSE BitLen(s[1]) - 26
        t == BigShrRound(s, drop)
    IN  IF t[1] = 2^26 THEN [m |-> <<2^25, 0>>, k |-> x.k - drop - 1]
        ELSE [m |-> t, k |-> x.k - drop]

\* (float)(y - 1) for a double 0 < y < 2^24: y - 1 is exact, the conversion
\* rounds it to 24 significant bits.  The float is [ip |-> its integer part,
\* frac |-> whether it has a fraction]; ip = 0 stands for every value below
\* 1, negative ones included.
FloatMinusOne(y) ==
    LET N == (y.m[1] \div 2^(y.k - 27)) - 1
        F == <<y.m[1] % 2^(y.k - 27), y.m[2]>>
        e == BitLen(N) - 1
        one == <<2^(y.k - 27), 0>>
        halfulp == <<2^(y.k + e - 51), 0>>
    IN  IF N < 1 THEN [ip |-> 0, frac |-> TRUE]
        ELSE IF BigGeq(F, BigSub(one, halfulp)) THEN [ip |-> N + 1, frac |-> FALSE]
        ELSE [ip |-> N, frac |-> ~BigGeq(halfulp, F)]

---------------------------------------------------------------------------
(* Frequency control.  A frequency (the float parameter of setPWMFreq) is   *)
(* a pair <<n, d>> standing for n/d Hz, d a power of two and n < 2^24:     *)
(* every float is such a pair.                                             *)

RatLtInt(r, k) == (r[1] \div r[2]) < k
RatGtInt(r, k) == (r[1] \div r[2]) > k \/ ((r[1] \div r[2]) = k /\ r[1] % r[2] > 0)

RECURSIVE Log2(_)
Log2(d) == IF d <= 1 THEN 0 ELSE 1 + Log2(d \div 2)

\* A slip: frequencies below 1 Hz are not raised to 1 Hz.
ClampFreqNoFloor(freq) ==
    IF RatGtInt(freq, 3500) THEN <<3500, 1>> ELSE freq

\* if (freq < 1) freq = 1; if (freq > 3500) freq = 3500;
ClampFreq(freq) ==
    LET f1 == IF RatLtInt(freq, 1) THEN <<1, 1>> ELSE freq
    IN  IF RatGtInt(f1, 3500) THEN <<3500, 1>> ELSE f1

\* _oscillator_freq / (freq * 4096.0), in double: the product is exact, and
\* the quotient is osc / n scaled by the power of two d / 4096.
OscOverFreq(osc, freq) ==
    LET q == DoubleDiv(osc, freq[1])
    IN  [m |-> q.m, k |-> q.k - (Log2(freq[2]) - 12)]

\* float prescaleval = ((_oscillator_freq / (freq * 4096.0)) + 0.5) - 1;
PrescaleVal(osc, freq) == FloatMinusOne(DoubleAddHalf(OscOverFreq(osc, freq)))

\* A slip: the upper range check is missing.
ClampPrescaleValNoMax(pv) ==
    IF pv.ip < PCA9685_PRESCALE_MIN
    THEN [ip |-> PCA9685_PRESCALE_MIN, frac |-> FALSE] ELSE pv

\* The two range checks on prescaleval.
ClampPrescaleVal(pv) ==
    LET p1 == IF pv.ip < PCA9685_PRESCALE_MIN
              THEN [ip |-> PCA9685_PRESCALE_MIN, frac |-> FALSE] ELSE pv
    IN  IF p1.ip > PCA9685_PRESCALE_MAX \/ (p1.ip = PCA9685_PRESCALE_MAX /\ p1.frac)
        THEN [ip |-> PCA9685_PRESCALE_MAX, frac |-> FALSE] ELSE p1

\* (uint8_t)prescaleval: the fraction is dropped.
FloatToU8(pv) == ToU8(pv.ip)

\* uint8_t prescale, as computed at the top of setPWMFreq.
ComputePrescale(osc, freq) ==
    FloatToU8(ClampPrescaleVal(PrescaleVal(osc, ClampFreq(freq))))

\* A slip: the old mode is restored before the prescaler is written.
WritePrescaleRestoreFirst(s, prescale) ==
    LET oldmode == read8val(s, PCA9685_MODE1)
        s1 == read8(s, PCA9685_MODE1)
        s2 == write8(s1, PCA9685_MODE1, SleepMode(oldmode))
        s3 == write8(s2, PCA9685_MODE1, oldmode)
        s4 == write8(s3, PCA9685_PRESCALE, prescale)
        s5 == delay(s4, 5)
        s6 == write8(s5, PCA9685_MODE1,
                     BitOr(BitOr(oldmode, MODE1_RESTART), MODE1_AI))
    IN  read8(s6, PCA9685_MODE1)

\* The register protocol of setPWMFreq, once prescale is computed.
WritePrescale(s, prescale) ==
    LET oldmode == read8val(s, PCA9685_MODE1)
        s1 == read8(s, PCA9685_MODE1)
        newmode == SleepMode(oldmode)
        s2 == write8(s1, PCA9685_MODE1, newmode)
        s3 == write8(s2, PCA9685_PRESCALE, prescale)
        s4 == write8(s3, PCA9685_MODE1, oldmode)
        s5 == delay(s4, 5)
        s6 == write8(s5, PCA9685_MODE1,
                     BitOr(BitOr(oldmode, MODE1_RESTART), MODE1_AI))
    IN  read8(s6, PCA9685_MODE1)     \* ENABLE_DEBUG_OUTPUT: "Mode now 0x.."

setPWMFreq(s, freq) == WritePrescale(s, ComputePrescale(s.osc, freq))

\* begin(prescale); newfd is what wiringPiI2CSetup returns.
begin(s, prescale, newfd) ==
    LET s0 == [s EXCEPT !.fd = newfd]
    IN  IF newfd < 0 THEN s0
        ELSE LET s1 == reset(s0)
                 s2 == IF prescale # 0 THEN setExtClk(s1, prescale)
                       ELSE setPWMFreq(s1, <<1000, 1>>)
             IN  setOscillatorFrequency(s2, FREQUENCY_OSCILLATOR)

---------------------------------------------------------------------------
(* Channel PWM control.                                                    *)

\* uint8_t channel_base_reg = PCA9685_LED0_ON_L + 4 * num;
ChannelBaseReg(num) == ToU8(PCA9685_LED0_ON_L + 4 * num)

\* A slip: the cycle length is not added when the pulse wraps around.
DutyOfNoWrap(on, off) == ToU16(65536 + off - on)

\* The value getPWM computes from the two 16-bit register pairs; the result
\* is converted to the uint16_t return type.
DutyOf(on, off) ==
    IF off < on THEN ToU16(65536 + 4096 + off - on) ELSE ToU16(off - on)

\* getPWM(num).  C++ leaves the order of the two read8 calls inside each sum
\* unspecified: hiFirstOn / hiFirstOff say which one goes on the bus first.
getPWM(s, num, hiFirstOn, hiFirstOff) ==
    LET base == ChannelBaseReg(num)
        on == ToU16(read8val(s, base + 1) * 256 + read8val(s, base))
        off == ToU16(read8val(s, base + 3) * 256 + read8val(s, base + 2))
        s1 == IF hiFirstOn THEN read8(read8(s, base + 1), base)
              ELSE read8(read8(s, base), base + 1)
        s2 == IF hiFirstOff THEN read8(read8(s1, base + 3), base + 2)
              ELSE read8(read8(s1, base + 2), base + 3)
    IN  [s2 EXCEPT !.ret = <<DutyOf(on, off)>>]

\* A slip: the off value is written before the on value.
setPWMOffFirst(s, num, on, off) ==
    LET base == ChannelBaseReg(num)
        s0 == [s EXCEPT !.calls = Append(@, <<num, on, off>>)]
        s1 == write8(s0, base + 2, BitAnd(off, 255))
        s2 == write8(s1, base + 3, off \div 256)
        s3 == write8(s2, base, BitAnd(on, 255))
    IN  write8(s3, base + 1, on \div 256)

\* setPWM(num, on, off): on and off are uint16_t.
setPWM(s, num, on, off) ==
    LET base == ChannelBaseReg(num)
        s0 == [s EXCEPT !.calls = Append(@, <<num, on, off>>)]
        s1 == write8(s0, base, BitAnd(on, 255))
        s2 == write8(s1, base + 1, on \div 256)
        s3 == write8(s2, base + 2, BitAnd(off, 255))
    IN  write8(s3, base + 3, off \div 256)

\* A slip: the value is not clamped.
ClampValNone(val) == val

\* val = std::min(val, (uint16_t)4095);
ClampVal(val) == IF val < 4095 THEN val ELSE 4095

setPin(s, num, val0, invert) ==
    LET val == ClampVal(val0)
    IN  IF invert
        THEN IF val = 0 THEN setPWM(s, num, 4096, 0)
             ELSE IF val = 4095 THEN setPWM(s, num, 0, 4096)
             ELSE setPWM(s, num, 0, 4095 - val)
        ELSE IF val = 4095 THEN setPWM(s, num, 4096, 0)
             ELSE IF val = 0 THEN setPWM(s, num, 0, 4096)
             ELSE setPWM(s, num, 0, val)

---------------------------------------------------------------------------
(* The pulse computation of writeMicroseconds.                             *)

\* The integer part of the double (double)u / x, for an integer 0 <= u < 2^16.
DoubleDivTrunc(u, x) ==
    IF u = 0 THEN 0
    ELSE LET a == IntPart([r |-> <<0, u>>, ip |-> 0], x.k, x.m)
         IN  a.ip + (IF FracCarry(a.r, a.ip, x.m) THEN 1 ELSE 0)

\* The conversion of the double pulse (integer part t) to the uint16_t
\* parameter of setPWM.  A value above 65535 is not representable and the
\* conversion is undefined: ub names what the build makes of it.
PulseToU16(t, ub) ==
    IF t <= 65535 THEN t
    ELSE IF ub = "wrap" THEN ToU16(t)
    ELSE IF ub = "saturate" THEN 65535
    ELSE 0

\* pulse /= pulselength with pulselength = 1000000 * prescale / osc: the
\* integer part of pulse (0 when osc is 0 and pulselength is infinite).
PulseTicks(osc, prescale, Microseconds) ==
    IF osc = 0 THEN 0
    ELSE DoubleDivTrunc(Microseconds, DoubleDiv(1000000 * prescale, osc))

writeMicroseconds(s, num, Microseconds, ub) ==
    LET s1 == read8(s, PCA9685_PRESCALE)                 \* readPrescale()
        prescale == ToU16(read8val(s, PCA9685_PRESCALE) + 1)
        pulse == PulseTicks(s.osc, prescale, Microseconds)
    IN  setPWM(s1, num, 0, PulseToU16(pulse, ub))

---------------------------------------------------------------------------
(* Inputs of the calls.                                                    *)

\* Calibrations: the nominal one and a typical corrected one.
OscInputs == {FREQUENCY_OSCILLATOR, 27000000}

\* Frequencies n/d Hz: below 1, the band's ends, inside it, above 3500.
FreqInputs == {<<1, 8>>, <<1, 1>>, <<50, 1>>, <<3500, 1>>, <<10000, 1>>}

\* Arguments of setExtClk and begin (0: begin sets the default frequency).
PrescaleInputs == {0, 121}

---------------------------------------------------------------------------
(* One serialized call of a public method.                                 *)

NoCall == [op |-> "none", args |-> <<>>]

\* boost::shared_mutex as constructed: no shared, upgrade or exclusive owner.
Unlocked == [shared_count |-> 0, upgrade |-> FALSE, exclusive |-> FALSE]

\* No thread is running: the calls are made one after the other.
NoThreads ==
    /\ pc = <<>>
    /\ local = <<>>
    /\ sched = <<>>
    /\ data = <<>>
    /\ data_access = Unlocked

Do(c, r) ==
    /\ pre' = [regs |-> regs, fd |-> fd, osc |-> oscillator_freq]
    /\ prior' = IF c.op = "getPWM" THEN call ELSE NoCall
    /\ call' = c
    /\ regs' = r.regs
    /\ fd' = r.fd
    /\ oscillator_freq' = r.osc
    /\ log' = r.log
    /\ calls' = r.calls
    /\ ret' = r.ret
    /\ UNCHANGED threadvars

Begin ==
    \E p \in PrescaleInputs, h \in {FD_OPEN, FD_FAILED} :
        Do([op |-> "begin", args |-> <<p>>], begin(Machine, p, h))

Reset == Do([op |-> "reset", args |-> <<>>], reset(Machine))

Sleep == Do([op |-> "sleep", args |-> <<>>], sleep(Machine))

Wakeup == Do([op |-> "wakeup", args |-> <<>>], wakeup(Machine))

SetExtClk ==
    \E p \in PrescaleInputs :
        Do([op |-> "setExtClk", args |-> <<p>>], setExtClk(Machine, p))

SetPWMFreq ==
    \E f \in FreqInputs :
        Do([op |-> "setPWMFreq", args |-> <<f>>], setPWMFreq(Machine, f))

SetOutputMode ==
    \E b \in BOOLEAN :
        Do([op |-> "setOutputMode", args |-> <<b>>], setOutputMode(Machine, b))

ReadPrescale == Do([op |-> "readPrescale", args |-> <<>>], readPrescale(Machine))

SetOscillatorFrequency ==
    \E f \in OscInputs :
        Do([op |-> "setOscillatorFrequency", args |-> <<f>>],
           setOscillatorFrequency(Machine, f))

\* Chip contents: MODE1 = mode1, PRESCALE = prescale, every channel block
\* holding the pair raw = <<on, off>>, MODE2 at its power-on value.
ChipRegs(mode1, prescale, raw) ==
    [a \in 0..255 |->
        IF a = PCA9685_MODE1 THEN mode1
        ELSE IF a = PCA9685_MODE2 THEN MODE2_OUTDRV
        ELSE IF a = PCA9685_PRESCALE THEN prescale
        ELSE IF a >= PCA9685_LED0_ON_L /\ a < PCA9685_LED0_ON_L + 4 * 16
        THEN LET i == (a - PCA9685_LED0_ON_L) % 4
             IN  IF i = 0 THEN raw[1] % 256
                 ELSE IF i = 1 THEN raw[1] \div 256
                 ELSE IF i = 2 THEN raw[2] % 256
                 ELSE raw[2] \div 256
        ELSE 0]

\* MODE1 patterns: every combination of RESTART, EXTCLK, AI and SLEEP (the
\* high four bits), over several patterns of the address-response bits (the
\* low four), which every operation carries over unchanged.
ModeInputs == {16 * h + l : h \in 0..15, l \in {0, 5, 10, 15}}

\* After construction: the chip keeps whatever was last written to it (any
\* MODE1 pattern; PRESCALE at its power-on value 0x1E); fd and
\* _oscillator_freq are not initialized by the constructor, so they hold
\* any value.
Init ==
    /\ \E m \in ModeInputs : regs = ChipRegs(m, 30, <<0, 0>>)
    /\ fd \in {FD_OPEN, FD_FAILED}
    /\ oscillator_freq \in OscInputs
    /\ log = <<>>
    /\ calls = <<>>
    /\ ret = <<>>
    /\ call = NoCall
    /\ pre = [regs |-> regs, fd |-> fd, osc |-> oscillator_freq]
    /\ prior = NoCall
    /\ NoThreads

Next ==
    \/ Begin
    \/ Reset
    \/ Sleep
    \/ Wakeup
    \/ SetExtClk
    \/ SetPWMFreq
    \/ SetOutputMode
    \/ ReadPrescale
    \/ SetOscillatorFrequency

Spec == Init /\ [][Next]_vars

---------------------------------------------------------------------------
(* SpecFreq: one setPWMFreq call, on a grid of frequencies and             *)
(* calibrations, from several MODE1 patterns.                              *)

GridFineHz == 120
GridCoarseSteps == 144

\* Every half Hz up to GridFineHz, every 25 Hz up to 25 * GridCoarseSteps,
\* frequencies below 1 Hz and above 3500 Hz, and floats at which
\* prescaleval lies within a float rounding step of the next integer.
FreqGrid ==
    {<<n, 2>> : n \in 1..(2 * GridFineHz)}
        \cup {<<25 * k, 1>> : k \in 1..GridCoarseSteps}
        \cup {<<1, 8>>, <<7, 8>>, <<1000, 1>>, <<7001, 2>>, <<10000, 1>>}
        \cup {<<6262231, 262144>>, <<6286837, 262144>>, <<9248555, 131072>>,
              <<15312739, 16384>>, <<8445361, 8388608>>, <<2264151, 4096>>,
              <<848723, 32768>>}

\* Calibrations from 1 MHz to 70 MHz; 24883200 / (50 * 4096) ends in .5.
OscGrid == {1000000, 24883200, FREQUENCY_OSCILLATOR, 27000000, 60000000,
            70000000}

ModePatterns == {0, 17, 161, 255}

SetPWMFreqGrid ==
    /\ call = NoCall
    /\ \E f \in FreqGrid :
         Do([op |-> "setPWMFreq", args |-> <<f>>], setPWMFreq(Machine, f))

InitFreq ==
    /\ \E m \in ModePatterns : regs = ChipRegs(m, 30, <<0, 0>>)
    /\ fd = FD_OPEN
    /\ oscillator_freq \in OscGrid
    /\ log = <<>>
    /\ calls = <<>>
    /\ ret = <<>>
    /\ call = NoCall
    /\ pre = [regs |-> regs, fd |-> fd, osc |-> oscillator_freq]
    /\ prior = NoCall
    /\ NoThreads

NextFreq == SetPWMFreqGrid

SpecFreq == InitFreq /\ [][NextFreq]_vars

---------------------------------------------------------------------------
(* SpecChannel: one channel call from any of a set of chip contents, and   *)
(* a getPWM read-back of the channel just written.                         *)

\* num is a uint8_t: the 16 channels, and indices past the last one.
ChannelInputs == 0..15 \cup {16, 62, 255}

\* Raw <<on, off>> contents of the channel registers.
RawInputs == {<<0, 0>>, <<0, 2048>>, <<0, 4096>>, <<4096, 0>>, <<3000, 1000>>}

TickInputs == {<<0, 0>>, <<0, 2048>>, <<3000, 1000>>, <<4096, 0>>, <<5000, 100>>}

ValInputs == {0, 1, 2048, 4094, 4095, 4096, 65535}

MicrosecondInputs == {0, 7, 1500, 20000, 65535}

PrescaleRegs == {3, 6, 121, 255}

UBOutcomes == {"wrap", "saturate", "zero"}

\* getPWM as the first call reads any channel; after a write it reads back
\* the channel just written.
GetPWM ==
    /\ call.op # "getPWM"
    /\ \E num \in ChannelInputs, h1 \in BOOLEAN, h2 \in BOOLEAN :
         /\ call # NoCall => num = call.args[1]
         /\ Do([op |-> "getPWM", args |-> <<num>>], getPWM(Machine, num, h1, h2))

SetPWM ==
    /\ call = NoCall
    /\ \E num \in ChannelInputs, t \in TickInputs :
         Do([op |-> "setPWM", args |-> <<num, t[1], t[2]>>],
            setPWM(Machine, num, t[1], t[2]))

SetPin ==
    /\ call = NoCall
    /\ \E num \in ChannelInputs, val \in ValInputs, invert \in BOOLEAN :
         Do([op |-> "setPin", args |-> <<num, val, invert>>],
            setPin(Machine, num, val, invert))

WriteMicroseconds ==
    /\ call = NoCall
    /\ \E num \in ChannelInputs, us \in MicrosecondInputs, ub \in UBOutcomes :
         Do([op |-> "writeMicroseconds", args |-> <<num, us>>],
            writeMicroseconds(Machine, num, us, ub))

\* Chip contents: every raw pair at the usual prescaler, and every prescaler
\* and calibration with the channels at rest.
InitChannel ==
    /\ \/ /\ \E raw \in RawInputs :
                regs = ChipRegs(MODE1_RESTART + MODE1_AI, 121, raw)
          /\ oscillator_freq = FREQUENCY_OSCILLATOR
       \/ /\ \E p \in PrescaleRegs :
                regs = ChipRegs(MODE1_RESTART + MODE1_AI, p, <<0, 0>>)
          /\ oscillator_freq \in OscInputs
    /\ fd \in {FD_OPEN, FD_FAILED}
    /\ log = <<>>
    /\ calls = <<>>
    /\ ret = <<>>
    /\ call = NoCall
    /\ pre = [regs |-> regs, fd |-> fd, osc |-> oscillator_freq]
    /\ prior = NoCall
    /\ NoThreads

NextChannel ==
    \/ GetPWM
    \/ SetPWM
    \/ SetPin
    \/ WriteMicroseconds

SpecChannel == InitChannel /\ [][NextChannel]_vars

---------------------------------------------------------------------------
(* SpecRace: two threads call setPWMFreq on one driver object.  The driver *)
(* takes no lock, so the scheduler may switch threads between any two bus  *)
(* transactions; a step is one transaction (or the delay) of one thread.   *)

Threads == {1, 2}

\* The two frequencies a thread may ask for (prescale 121 and prescale 3).
RaceFreqs == {<<50, 1>>, <<3500, 1>>}

\* MODE1 at power-on, and as an earlier setPWMFreq left it.
RaceModes == {0, 161}

\* A slip: the value read from MODE1 is not kept.
RaceCaptureNone(s) == 0

\* uint8_t oldmode = read8(PCA9685_MODE1), as the thread captures it.
RaceCapture(s) == read8val(s, PCA9685_MODE1)

\* Thread t puts the transactions of r (developed from Machine) on the bus
\* and goes on to the statement next.
Issue(t, r, next) ==
    /\ regs' = r.regs
    /\ log' = log \o r.log
    /\ sched' = sched \o [i \in 1..Len(r.log) |-> t]
    /\ pc' = [pc EXCEPT ![t] = next]
    /\ UNCHANGED <<fd, oscillator_freq, calls, ret, call, pre, prior,
                   data, data_access>>

\* prescale is computed, then oldmode = read8(PCA9685_MODE1).
RaceRead(t) ==
    /\ pc[t] = "read"
    /\ local' = [local EXCEPT
                    ![t].prescale = ComputePrescale(oscillator_freq, local[t].freq),
                    ![t].oldmode = RaceCapture(Machine)]
    /\ Issue(t, read8(Machine, PCA9685_MODE1), "sleep")

\* write8(PCA9685_MODE1, newmode): go to sleep.
RaceSleep(t) ==
    /\ pc[t] = "sleep"
    /\ Issue(t, write8(Machine, PCA9685_MODE1, SleepMode(local[t].oldmode)),
             "prescale")
    /\ UNCHANGED local

\* write8(PCA9685_PRESCALE, prescale).
RacePrescale(t) ==
    /\ pc[t] = "prescale"
    /\ Issue(t, write8(Machine, PCA9685_PRESCALE, local[t].prescale), "restore")
    /\ UNCHANGED local

\* write8(PCA9685_MODE1, oldmode).
RaceRestore(t) ==
    /\ pc[t] = "restore"
    /\ Issue(t, write8(Machine, PCA9685_MODE1, local[t].oldmode), "delay")
    /\ UNCHANGED local

\* delay(5).
RaceDelay(t) ==
    /\ pc[t] = "delay"
    /\ Issue(t, delay(Machine, 5), "restart")
    /\ UNCHANGED local

\* write8(PCA9685_MODE1, oldmode | MODE1_RESTART | MODE1_AI).
RaceRestart(t) ==
    /\ pc[t] = "restart"
    /\ Issue(t, write8(Machine, PCA9685_MODE1,
                       BitOr(BitOr(local[t].oldmode, MODE1_RESTART), MODE1_AI)),
             "debug")
    /\ UNCHANGED local

\* ENABLE_DEBUG_OUTPUT: "Mode now 0x..", then the call returns.
RaceDebug(t) ==
    /\ pc[t] = "debug"
    /\ Issue(t, read8(Machine, PCA9685_MODE1), "done")
    /\ UNCHANGED local

\* An initialized driver on an open bus; each thread is about to call
\* setPWMFreq with its own frequency (prescale and oldmode not yet assigned).
InitRace ==
    /\ \E m \in RaceModes : regs = ChipRegs(m, 30, <<0, 0>>)
    /\ fd = FD_OPEN
    /\ oscillator_freq = FREQUENCY_OSCILLATOR
    /\ log = <<>>
    /\ calls = <<>>
    /\ ret = <<>>
    /\ call = NoCall
    /\ pre = [regs |-> regs, fd |-> fd, osc |-> oscillator_freq]
    /\ prior = NoCall
    /\ pc = [t \in Threads |-> "read"]
    /\ local \in [Threads -> {[freq |-> f, prescale |-> 0, oldmode |-> 0] :
                                 f \in RaceFreqs}]
    /\ sched = <<>>
    /\ data = <<>>
    /\ data_access = Unlocked

NextRace ==
    \E t \in Threads :
        \/ RaceRead(t)
        \/ RaceSleep(t)
        \/ RacePrescale(t)
        \/ RaceRestore(t)
        \/ RaceDelay(t)
        \/ RaceRestart(t)
        \/ RaceDebug(t)

SpecRace == InitRace /\ [][NextRace]_vars

---------------------------------------------------------------------------
(* SpecTelemetry: the sampling and the publishing thread of main.cpp and   *)
(* the boost::shared_mutex _data_access they construct their locks on.  A  *)
(* step is one statement of one thread.  The mutex is modelled by its      *)
(* state as boost keeps it: the number of shared owners (an upgrade owner  *)
(* counts as one), whether there is an upgrade owner, whether there is an  *)
(* exclusive owner.  The consumer thread touches neither data nor the      *)
(* mutex.                                                                  *)

TelemetryThreads == {"sampler", "publisher"}

\* vector<int> daq_chan = {0, 1, 2, 3, 4, 5, 6, 7};
daq_chan == <<0, 1, 2, 3, 4, 5, 6, 7>>

\* What a read of an element gives while another thread modifies the
\* vector (a data race): not one of the ids.
Torn == 0 - 1

\* The sampler constructs boost::upgrade_lock objects, the publisher
\* boost::shared_lock objects.  lock_upgrade waits while there is an
\* exclusive or an upgrade owner, lock_shared while there is an exclusive
\* owner.
CanLock(t) ==
    IF t = "sampler"
    THEN ~data_access.exclusive /\ ~data_access.upgrade
    ELSE ~data_access.exclusive

\* The mutex after the constructor of t's lock object returns.
Acquired(t) ==
    IF t = "sampler"
    THEN [data_access EXCEPT !.shared_count = @ + 1, !.upgrade = TRUE]
    ELSE [data_access EXCEPT !.shared_count = @ + 1]

\* The mutex after the destructor of one of t's lock objects.
Released(t) ==
    IF t = "sampler"
    THEN [data_access EXCEPT !.shared_count = @ - 1, !.upgrade = FALSE]
    ELSE [data_access EXCEPT !.shared_count = @ - 1]

\* The first lock object of the loop body ("read lock", "write lock"); the
\* publisher then starts with an empty json_data at data.begin().
Lock(t) ==
    /\ pc[t] = "lock"
    /\ CanLock(t)
    /\ data_access' = Acquired(t)
    /\ pc' = [pc EXCEPT ![t] = IF t = "sampler" THEN "clear" ELSE "iterate"]
    /\ local' = IF t = "sampler" THEN local
                ELSE [local EXCEPT ![t] = [it |-> 0, json_data |-> <<>>]]
    /\ UNCHANGED <<data, sched>>
    /\ UNCHANGED drivervars

\* data.clear();
Clear ==
    /\ pc["sampler"] = "clear"
    /\ data' = <<>>
    /\ local' = [local EXCEPT !["sampler"] = [c |-> 0]]
    /\ pc' = [pc EXCEPT !["sampler"] = "fill"]
    /\ UNCHANGED <<data_access, sched>>
    /\ UNCHANGED drivervars

\* for (auto c : daq_chan) { ... data.push(sd); }: one datapoint per step,
\* then on to the second lock object.
Fill ==
    /\ pc["sampler"] = "fill"
    /\ LET c == local["sampler"].c
       IN  IF c < Len(daq_chan)
           THEN /\ data' = Append(data, daq_chan[c + 1])
                /\ local' = [local EXCEPT !["sampler"].c = c + 1]
                /\ pc' = pc
           ELSE /\ pc' = [pc EXCEPT !["sampler"] = "lock2"]
                /\ UNCHANGED <<data, local>>
    /\ UNCHANGED <<data_access, sched>>
    /\ UNCHANGED drivervars

\* The datapoint the publisher's loop reads at position it: the element, or
\* anything at all while the sampler is modifying the vector.
ReadOutcomes(it) ==
    {data[it + 1]} \cup
        (IF pc["sampler"] \in {"clear", "fill"} THEN {Torn} ELSE {})

\* for (auto sd : data) { ... json_data.push_back(se); }: one datapoint per
\* step, then on to the second lock object.
Iterate ==
    /\ pc["publisher"] = "iterate"
    /\ LET it == local["publisher"].it
       IN  IF it < Len(data)
           THEN /\ \E sd \in ReadOutcomes(it) :
                     local' = [local EXCEPT
                                  !["publisher"].json_data = Append(@, sd),
                                  !["publisher"].it = it + 1]
                /\ pc' = pc
           ELSE /\ pc' = [pc EXCEPT !["publisher"] = "lock2"]
                /\ local' = local
    /\ UNCHANGED <<data, data_access, sched>>
    /\ UNCHANGED drivervars

\* The second lock object of the loop body (commented "unlock"): one more
\* lock constructed on the same mutex.
Lock2(t) ==
    /\ pc[t] = "lock2"
    /\ CanLock(t)
    /\ data_access' = Acquired(t)
    /\ pc' = [pc EXCEPT ![t] = IF t = "sampler" THEN "sleep" ELSE "publish"]
    /\ UNCHANGED <<data, local, sched>>
    /\ UNCHANGED drivervars

\* cli->publish("novaground/telemetry", s_payload)->wait();
Publish ==
    /\ pc["publisher"] = "publish"
    /\ pc' = [pc EXCEPT !["publisher"] = "sleep"]
    /\ UNCHANGED <<data, data_access, local, sched>>
    /\ UNCHANGED drivervars

\* this_thread::sleep_for(...), the locks still held.
SleepFor(t) ==
    /\ pc[t] = "sleep"
    /\ pc' = [pc EXCEPT ![t] = "unlock2"]
    /\ UNCHANGED <<data, data_access, local, sched>>
    /\ UNCHANGED drivervars

\* End of the loop body: the second lock object is destroyed first.
Unlock2(t) ==
    /\ pc[t] = "unlock2"
    /\ data_access' = Released(t)
    /\ pc' = [pc EXCEPT ![t] = "unlock"]
    /\ UNCHANGED <<data, local, sched>>
    /\ UNCHANGED drivervars

\* Then the first one, and the loop starts over.
Unlock(t) ==
    /\ pc[t] = "unlock"
    /\ data_access' = Released(t)
    /\ pc' = [pc EXCEPT ![t] = "lock"]
    /\ UNCHANGED <<data, local, sched>>
    /\ UNCHANGED drivervars

\* main() has started the threads: data is empty, the mutex has no owner.
\* No servo driver is involved.
InitTelemetry ==
    /\ regs = ChipRegs(0, 30, <<0, 0>>)
    /\ fd = FD_FAILED
    /\ oscillator_freq = FREQUENCY_OSCILLATOR
    /\ log = <<>>
    /\ calls = <<>>
    /\ ret = <<>>
    /\ call = NoCall
    /\ pre = [regs |-> regs, fd |-> fd, osc |-> oscillator_freq]
    /\ prior = NoCall
    /\ pc = [t \in TelemetryThreads |-> "lock"]
    /\ local = [t \in TelemetryThreads |->
                   IF t = "sampler" THEN [c |-> 0]
                   ELSE [it |-> 0, json_data |-> <<>>]]
    /\ sched = <<>>
    /\ data = <<>>
    /\ data_access = Unlocked

\* The next statement of sample_func, and of publisher_func.
SamplerStep ==
    \/ Lock("sampler")
    \/ Clear
    \/ Fill
    \/ Lock2("sampler")
    \/ SleepFor("sampler")
    \/ Unlock2("sampler")
    \/ Unlock("sampler")

PublisherStep ==
    \/ Lock("publisher")
    \/ Iterate
    \/ Lock2("publisher")
    \/ Publish
    \/ SleepFor("publisher")
    \/ Unlock2("publisher")
    \/ Unlock("publisher")

NextTelemetry ==
    \/ \E t \in TelemetryThreads : Lock(t)
    \/ Clear
    \/ Fill
    \/ Iterate
    \/ \E t \in TelemetryThreads : Lock2(t)
    \/ Publish
    \/ \E t \in TelemetryThreads : SleepFor(t)
    \/ \E t \in TelemetryThreads : Unlock2(t)
    \/ \E t \in TelemetryThreads : Unlock(t)

SpecTelemetry == InitTelemetry /\ [][NextTelemetry]_vars

\* The scheduler is fair to both threads: a thread whose next statement can
\* run does run it.
SpecTelemetryFair ==
    /\ InitTelemetry
    /\ [][NextTelemetry]_vars
    /\ WF_vars(SamplerStep)
    /\ WF_vars(PublisherStep)

---------------------------------------------------------------------------
(* Properties of the lifecycle and mode operations (checked under Spec).   *)

IsWrite(e, addr) == e[1] = "w" /\ e[2] = addr

\* The position in the call's log of the last write to addr before position
\* i, or 0 when there is none.
LastWriteBefore(addr, i) ==
    LET W == {j \in 1..(i - 1) : IsWrite(log[j], addr)}
    IN  IF W = {} THEN 0 ELSE CHOOSE j \in W : \A k \in W : k <= j

\* C1: in every call of begin, reset, sleep, wakeup, setExtClk and
\* setPWMFreq, from any MODE1 pattern and in any order, every write to the
\* prescale register comes after a write to MODE1, and the most recent
\* value written to MODE1 before it has the SLEEP bit set.
PrescaleWrittenAsleep ==
    \A i \in 1..Len(log) :
        IsWrite(log[i], PCA9685_PRESCALE) =>
            LET j == LastWriteBefore(PCA9685_MODE1, i)
            IN  j > 0 /\ HasBit(log[j][3], MODE1_SLEEP)

\* A setPWMFreq call on an open bus that found the chip awake and wrote the
\* prescaler.
PrescaleWrittenAsleepWitness ==
    /\ call.op = "setPWMFreq"
    /\ pre.fd = FD_OPEN
    /\ ~HasBit(pre.regs[PCA9685_MODE1], MODE1_SLEEP)
    /\ \E i \in 1..Len(log) : IsWrite(log[i], PCA9685_PRESCALE)

\* C2: whatever MODE1 held before and whatever the prescale argument, the
\* last value setExtClk writes to MODE1 has SLEEP clear and RESTART and AI
\* both set.
ExtClkFinalMode ==
    call.op = "setExtClk" =>
        LET j == LastWriteBefore(PCA9685_MODE1, Len(log) + 1)
        IN  /\ j > 0
            /\ ~HasBit(log[j][3], MODE1_SLEEP)
            /\ HasBit(log[j][3], MODE1_RESTART)
            /\ HasBit(log[j][3], MODE1_AI)

\* setExtClk called on an open bus with the chip asleep, RESTART and AI
\* clear: the chip is left with the final mode.
ExtClkFinalModeWitness ==
    /\ call.op = "setExtClk"
    /\ pre.fd = FD_OPEN
    /\ pre.regs[PCA9685_MODE1] = MODE1_SLEEP
    /\ regs[PCA9685_MODE1] = MODE1_EXTCLK + MODE1_RESTART + MODE1_AI

---------------------------------------------------------------------------
(* Properties of setPWMFreq (checked under SpecFreq).                      *)

\* The byte the last call wrote to the prescale register.
PrescaleWritten ==
    log[CHOOSE i \in 1..Len(log) : IsWrite(log[i], PCA9685_PRESCALE)][3]

\* The machine the last call started from.
PreMachine == [regs |-> pre.regs, fd |-> pre.fd, osc |-> pre.osc,
               log |-> <<>>, calls |-> <<>>, ret |-> <<>>]

InBand(f) == ~RatLtInt(f, 1) /\ ~RatGtInt(f, 3500)

\* f1 <= f2 for frequencies n/d, d a power of two.
FreqLeq(f1, f2) ==
    LET i1 == f1[1] \div f1[2]
        i2 == f2[1] \div f2[2]
        D == IF f1[2] > f2[2] THEN f1[2] ELSE f2[2]
    IN  i1 < i2 \/ (i1 = i2 /\ (f1[1] % f1[2]) * (D \div f1[2])
                                  <= (f2[1] % f2[2]) * (D \div f2[2]))

\* floor(q * 2^t + r * 2^t / o) for 0 <= r < o.
RECURSIVE ShiftDiv(_, _, _, _)
ShiftDiv(q, r, t, o) ==
    IF t = 0 THEN q
    ELSE LET nb == IF t < 4 THEN t ELSE 4
             r2 == r * 2^nb
         IN  ShiftDiv(q * 2^nb + (r2 \div o), r2 % o, t - nb, o)

\* floor(osc / (f * 4096) + 0.5) in exact arithmetic, f = n/d:
\* floor((floor(2 * osc * d / (4096 * n)) + 1) / 2).
RoundedDivider(osc, f) ==
    LET t == Log2(f[2]) - 11
        twice == IF t >= 0 THEN ShiftDiv(osc \div f[1], osc % f[1], t, f[1])
                 ELSE osc \div (f[1] * 2^(0 - t))
    IN  (twice + 1) \div 2

\* floor(osc / (clampedHz * 4096) + 0.5) - 1 clamped into
\* [PCA9685_PRESCALE_MIN, PCA9685_PRESCALE_MAX].
FormulaPrescale(osc, f) ==
    LET clampedHz == IF RatLtInt(f, 1) THEN <<1, 1>>
                     ELSE IF RatGtInt(f, 3500) THEN <<3500, 1>> ELSE f
        p == RoundedDivider(osc, clampedHz) - 1
    IN  IF p < PCA9685_PRESCALE_MIN THEN PCA9685_PRESCALE_MIN
        ELSE IF p > PCA9685_PRESCALE_MAX THEN PCA9685_PRESCALE_MAX ELSE p

\* C3: for every frequency and calibration, the prescale value setPWMFreq
\* writes is floor(osc / (clampedHz * 4096) + 0.5) - 1 clamped into
\* [PRESCALE_MIN, PRESCALE_MAX]; 25 MHz gives 121 at 50 Hz and 5 at 1000 Hz.
PrescaleMatchesFormula ==
    call.op = "setPWMFreq" =>
        /\ PrescaleWritten = FormulaPrescale(pre.osc, call.args[1])
        /\ (pre.osc = 25000000 /\ call.args[1] = <<50, 1>>) => PrescaleWritten = 121
        /\ (pre.osc = 25000000 /\ call.args[1] = <<1000, 1>>) => PrescaleWritten = 5

\* The prescale value of every calibration and frequency of the grid.
GridPrescale ==
    [o \in OscGrid, f \in {g \in FreqGrid : InBand(g)} |-> ComputePrescale(o, f)]

\* C4: at a fixed calibration, for frequencies in [1, 3500], the prescale
\* value setPWMFreq writes lies in [PRESCALE_MIN, PRESCALE_MAX] and no
\* higher frequency gets a larger one.
PrescaleMonotone ==
    (call.op = "setPWMFreq" /\ InBand(call.args[1])) =>
        /\ PrescaleWritten \in PCA9685_PRESCALE_MIN..PCA9685_PRESCALE_MAX
        /\ \A f2 \in {g \in FreqGrid : InBand(g)} :
               FreqLeq(call.args[1], f2) =>
                   PrescaleWritten >= GridPrescale[pre.osc, f2]

\* setPWMFreq(50) at 25 MHz wrote 121, above what 1000 Hz gets.
PrescaleMonotoneWitness ==
    /\ call = [op |-> "setPWMFreq", args |-> <<<<50, 1>>>>]
    /\ pre.osc = FREQUENCY_OSCILLATOR
    /\ PrescaleWritten = 121
    /\ GridPrescale[pre.osc, <<1000, 1>>] = 5

SameOutcome(r) ==
    /\ log = r.log
    /\ regs = r.regs
    /\ fd = r.fd
    /\ oscillator_freq = r.osc

\* C5: from the same chip and controller state, setPWMFreq(f) with f < 1
\* issues the same transactions and ends in the same state as
\* setPWMFreq(1), and with f > 3500 the same as setPWMFreq(3500).
FreqSaturates ==
    call.op = "setPWMFreq" =>
        /\ RatLtInt(call.args[1], 1) => SameOutcome(setPWMFreq(PreMachine, <<1, 1>>))
        /\ RatGtInt(call.args[1], 3500) =>
               SameOutcome(setPWMFreq(PreMachine, <<3500, 1>>))

\* setPWMFreq(0.125) at a 1 MHz calibration wrote 243, the value of 1 Hz,
\* which is below PRESCALE_MAX.
FreqSaturatesWitness ==
    /\ call = [op |-> "setPWMFreq", args |-> <<<<1, 8>>>>]
    /\ pre.osc = 1000000
    /\ PrescaleWritten = 243

---------------------------------------------------------------------------
(* Properties of the channel operations (checked under SpecChannel).       *)

\* The <<on, off>> pair of the duty table for a value and an invert setting.
TablePair(val, invert) ==
    LET v == IF val > 4095 THEN 4095 ELSE val
    IN  IF invert
        THEN IF v = 0 THEN <<4096, 0>>
             ELSE IF v = 4095 THEN <<0, 4096>> ELSE <<0, 4095 - v>>
        ELSE IF v = 4095 THEN <<4096, 0>>
             ELSE IF v = 0 THEN <<0, 4096>> ELSE <<0, v>>

\* C6: for every channel in 0..15, every value and both invert settings,
\* setPin clamps the value to at most 4095 and makes exactly one setPWM call,
\* with the pair of the duty table.
SetPinFollowsTable ==
    (call.op = "setPin" /\ call.args[1] <= 15) =>
        LET pair == TablePair(call.args[2], call.args[3])
        IN  calls = << <<call.args[1], pair[1], pair[2]>> >>

\* setPin(3, 65535, true): the value is clamped to 4095, which inverted is
\* fully off.
SetPinFollowsTableWitness ==
    /\ call = [op |-> "setPin", args |-> <<3, 65535, TRUE>>]
    /\ calls = << <<3, 0, 4096>> >>

\* A getPWM read-back, on an open bus, of the channel that
\* setPin(ch, val, false) just wrote.
ReadBackOf(val) ==
    /\ fd = FD_OPEN
    /\ call.op = "getPWM"
    /\ prior.op = "setPin"
    /\ prior.args[1] <= 15
    /\ prior.args[2] = val
    /\ prior.args[3] = FALSE

RawTick(lo) == pre.regs[lo] + 256 * pre.regs[lo + 1]

\* C8: getPWM assembles on and off from the four channel registers, and
\* whenever the raw off is less than the raw on it reports
\* 4096 + off - on; raw contents (3000, 1000) give 2096.
WrapNormalized ==
    (call.op = "getPWM" /\ call.args[1] <= 15 /\ fd = FD_OPEN) =>
        LET base == PCA9685_LED0_ON_L + 4 * call.args[1]
            on == RawTick(base)
            off == RawTick(base + 2)
        IN  /\ off < on => ret = <<4096 + off - on>>
            /\ (on = 3000 /\ off = 1000) => ret = <<2096>>

RECURSIVE GCD(_, _)
GCD(a, b) == IF b = 0 THEN a ELSE GCD(b, a % b)

\* floor(us * osc / (1000000 * (prescale + 1))).
ExactTicks(osc, prescale, us) ==
    LET g == GCD(osc, 1000000)
    IN  (us * (osc \div g)) \div ((1000000 \div g) * (prescale + 1))

\* C9: for every prescale register value in [PRESCALE_MIN, PRESCALE_MAX],
\* calibration and pulse length, writeMicroseconds reads the prescale
\* register once and calls setPWM(num, 0, ticks) with
\* ticks = floor(us * osc / (1000000 * (prescale + 1))); prescale 121 at
\* 25 MHz turns 1500 us into 307 ticks.
PulseTicksExact ==
    (/\ call.op = "writeMicroseconds"
     /\ fd = FD_OPEN
     /\ pre.regs[PCA9685_PRESCALE] \in PCA9685_PRESCALE_MIN..PCA9685_PRESCALE_MAX) =>
        /\ Cardinality({i \in 1..Len(log) : log[i][1] = "r"
                                              /\ log[i][2] = PCA9685_PRESCALE}) = 1
        /\ calls = << <<call.args[1], 0,
                        ExactTicks(pre.osc, pre.regs[PCA9685_PRESCALE], call.args[2])>> >>
        /\ (pre.osc = 25000000 /\ pre.regs[PCA9685_PRESCALE] = 121
                /\ call.args[2] = 1500) => calls[1][3] = 307

\* C10: a channel operation called with a channel above 15 issues no
\* register read or write and leaves the chip as it was.
ChannelRejected ==
    (/\ call.op \in {"getPWM", "setPWM", "setPin", "writeMicroseconds"}
     /\ call.args[1] > 15) =>
        /\ log = <<>>
        /\ regs = pre.regs

---------------------------------------------------------------------------
(* Failure handling (checked under Spec).                                  *)

NoTransport(l) == \A i \in 1..Len(l) : l[i][1] \notin {"r", "w"}

\* C11: no register transport call is issued on an invalid handle: a begin
\* whose bus open fails issues no transaction and leaves the handle
\* invalid, and the operation called next on that handle issues none
\* either.
NoTransportOnInvalidHandle ==
    [][/\ (call'.op = "begin" /\ fd' = FD_FAILED) => log' = <<>>
       /\ (call.op = "begin" /\ fd = FD_FAILED /\ call'.op # "begin") =>
              NoTransport(log')]_vars

\* C12: when a register transaction fails, the operation stops there: no
\* write is issued after a failed read, so the value a failed read returned
\* is never used to compute a register write.  (Every transaction on an
\* invalid handle fails.)
FailedReadNotUsed ==
    fd = FD_FAILED =>
        \A i \in 1..Len(log) : \A j \in (i + 1)..Len(log) :
            log[i][1] = "r" => log[j][1] # "w"

\* C13: begin is idempotent in effect: after a successful begin(p), a second
\* successful begin(p) leaves MODE1, PRESCALE and _oscillator_freq exactly
\* as the first one left them.
BeginIdempotent ==
    (call.op = "begin" /\ fd = FD_OPEN) =>
        LET again == begin(Machine, call.args[1], FD_OPEN)
        IN  /\ again.regs[PCA9685_MODE1] = regs[PCA9685_MODE1]
            /\ again.regs[PCA9685_PRESCALE] = regs[PCA9685_PRESCALE]
            /\ again.osc = oscillator_freq

(* The register protocol of setPWMFreq (checked under Spec). *)
Writes(l) == SelectSeq(l, LAMBDA e : e[1] = "w")
Reads(l) == SelectSeq(l, LAMBDA e : e[1] = "r")

\* The writes of the last setPWMFreq call are, in this order: MODE1 := the
\* sleep value, PRESCALE := the computed prescale, MODE1 := the old mode read
\* first, MODE1 := the old mode with RESTART and AI set; the old mode is read
\* before any write and every bit of it is set in the final write.
FreqWritesInOrder ==
    LET old == pre.regs[PCA9685_MODE1]
        final == BitOr(BitOr(old, MODE1_RESTART), MODE1_AI)
    IN  /\ log[1] = <<"r", PCA9685_MODE1, old>>
        /\ Writes(log) =
               << <<"w", PCA9685_MODE1, SleepMode(old)>>,
                  <<"w", PCA9685_PRESCALE,
                    ComputePrescale(pre.osc, call.args[1])>>,
                  <<"w", PCA9685_MODE1, old>>,
                  <<"w", PCA9685_MODE1, final>> >>
        /\ BitAnd(log[Len(log) - 1][3], old) = old
        /\ regs[PCA9685_MODE1] = final

\* C14 (as stated): setPWMFreq reads MODE1 exactly once, before any write,
\* then writes sleep value, prescale, old mode, old mode with RESTART and AI,
\* in this order, so every bit set in MODE1 before the call is set in the
\* final mode write.
FreqReadsModeOnce ==
    (call.op = "setPWMFreq" /\ pre.fd = FD_OPEN) =>
        /\ FreqWritesInOrder
        /\ Len(Reads(log)) = 1

\* C14 (amended): setPWMFreq reads MODE1 once before any write and uses that
\* value for its four writes (sleep value, prescale, old mode, old mode with
\* RESTART and AI, in this order), and reads MODE1 a second time after the
\* last write, for the debug dump; every bit set in MODE1 before the call is
\* set in the final mode write.
FreqReadsModeBeforeAndAfter ==
    (call.op = "setPWMFreq" /\ pre.fd = FD_OPEN) =>
        /\ FreqWritesInOrder
        /\ Reads(log) = << log[1], log[Len(log)] >>
        /\ Len(log) = 7
        /\ log[7] = <<"r", PCA9685_MODE1, regs[PCA9685_MODE1]>>

FreqReadsModeBeforeAndAfterWitness ==
    /\ call.op = "setPWMFreq"
    /\ pre.fd = FD_OPEN
    /\ HasBit(pre.regs[PCA9685_MODE1], MODE1_EXTCLK)
    /\ ~HasBit(pre.regs[PCA9685_MODE1], MODE1_RESTART)
    /\ ~HasBit(pre.regs[PCA9685_MODE1], MODE1_AI)
    /\ Len(Writes(log)) = 4
    /\ HasBit(regs[PCA9685_MODE1], MODE1_EXTCLK)

\* The bits of MODE1 other than RESTART and SLEEP.
OtherModeBits == {1, 2, 4, 8, MODE1_AI, MODE1_EXTCLK}

\* C15 (as stated): the sleep write of setPWMFreq is the old MODE1 value
\* with SLEEP set and every other bit, RESTART included, unchanged.
SleepWriteKeepsAllBits ==
    (call.op = "setPWMFreq" /\ pre.fd = FD_OPEN) =>
        LET m == pre.regs[PCA9685_MODE1]
            w == Writes(log)[1]
        IN  /\ w[2] = PCA9685_MODE1
            /\ HasBit(w[3], MODE1_SLEEP)
            /\ \A b \in OtherModeBits \cup {MODE1_RESTART} :
                   HasBit(w[3], b) <=> HasBit(m, b)

\* C15 (amended): the sleep write of setPWMFreq is the old MODE1 value with
\* SLEEP set and RESTART cleared; every other bit is unchanged.
SleepWriteClearsRestart ==
    (call.op = "setPWMFreq" /\ pre.fd = FD_OPEN) =>
        LET m == pre.regs[PCA9685_MODE1]
            w == Writes(log)[1]
        IN  /\ w[2] = PCA9685_MODE1
            /\ HasBit(w[3], MODE1_SLEEP)
            /\ ~HasBit(w[3], MODE1_RESTART)
            /\ \A b \in OtherModeBits : HasBit(w[3], b) <=> HasBit(m, b)

SleepWriteClearsRestartWitness ==
    /\ call.op = "setPWMFreq"
    /\ pre.fd = FD_OPEN
    /\ HasBit(pre.regs[PCA9685_MODE1], MODE1_RESTART)
    /\ HasBit(pre.regs[PCA9685_MODE1], MODE1_EXTCLK)
    /\ ~HasBit(pre.regs[PCA9685_MODE1], MODE1_SLEEP)
    /\ Writes(log)[1][3] = pre.regs[PCA9685_MODE1] - MODE1_RESTART + MODE1_SLEEP

(* The frame of setPWM (checked under SpecChannel). *)

\* C16: for a channel c in 0..15, setPWM(c, on, off) issues no read and
\* exactly four writes, ON_L, ON_H, OFF_L, OFF_H at LED0_ON_L + 4c + 0..3,
\* low byte then high byte of each value; on an open bus the four registers
\* of channel c hold the new bytes whatever they held before, and every
\* other register (the other channels, MODE1, MODE2, PRESCALE) is unchanged.
SetPWMWritesOnlyChannel ==
    (call.op = "setPWM" /\ call.args[1] \in 0..15) =>
        LET base == PCA9685_LED0_ON_L + 4 * call.args[1]
            on == call.args[2]
            off == call.args[3]
            bytes == <<on % 256, on \div 256, off % 256, off \div 256>>
        IN  /\ log = [i \in 1..4 |-> <<"w", base + i - 1, bytes[i]>>]
            /\ pre.fd = FD_OPEN =>
                   \A a \in 0..255 :
                       regs[a] = IF a \in base..(base + 3)
                                 THEN bytes[a - base + 1] ELSE pre.regs[a]

SetPWMWritesOnlyChannelWitness ==
    /\ call.op = "setPWM"
    /\ call.args = <<15, 3000, 1000>>
    /\ pre.fd = FD_OPEN
    /\ pre.regs[PCA9685_LED0_ON_L + 63] = 16
    /\ regs[PCA9685_LED0_ON_L + 60] = 184
    /\ regs[PCA9685_LED0_ON_L + 63] = 3
    /\ regs[PCA9685_LED0_ON_L + 59] = 16
    /\ regs[PCA9685_PRESCALE] = 121

\* A channel's stored <<on, off>>: 12-bit ticks, or one of the two marker
\* pairs.
TickPairValid(on, off) ==
    \/ on \in 0..4095 /\ off \in 0..4095
    \/ <<on, off>> \in {<<4096, 0>>, <<0, 4096>>}

StoredTick(lo) == regs[lo] + 256 * regs[lo + 1]

\* C17: after setPin or writeMicroseconds on a channel 0..15 (any value, any
\* pulse length, any prescale in [PRESCALE_MIN, PRESCALE_MAX]) every
\* channel's stored on and off lie in 0..4095, the marker 4096 appearing
\* only in the pairs (4096, 0) and (0, 4096).
TickRangeKept ==
    (/\ call.op \in {"setPin", "writeMicroseconds"}
     /\ call.args[1] <= 15
     /\ pre.regs[PCA9685_PRESCALE] \in PCA9685_PRESCALE_MIN..PCA9685_PRESCALE_MAX) =>
        \A c \in 0..15 :
            TickPairValid(StoredTick(PCA9685_LED0_ON_L + 4 * c),
                          StoredTick(PCA9685_LED0_ON_L + 4 * c + 2))

(* Unserialized setPWMFreq calls (checked under SpecRace). *)

\* Entry i of the log is the last transaction of its thread's call (the
\* thread's second read of MODE1).
CallEndsAt(i) ==
    Cardinality({k \in 1..i : sched[k] = sched[i] /\ log[k][1] = "r"}) = 2

\* The two calls ran one after the other: the bus changed hands only when a
\* call had returned.
Serialized ==
    \A i \in 1..(Len(sched) - 1) : sched[i] # sched[i + 1] => CallEndsAt(i)

\* Some write to PRESCALE was issued while the last value written to MODE1
\* had SLEEP clear.
PrescaleWrittenAwake ==
    \E i \in 1..Len(log) :
        /\ IsWrite(log[i], PCA9685_PRESCALE)
        /\ LET j == LastWriteBefore(PCA9685_MODE1, i)
           IN  j > 0 /\ ~HasBit(log[j][3], MODE1_SLEEP)

\* What two setPWMFreq calls leave, the call of thread a first.
SerialOutcome(a, b) ==
    setPWMFreq([setPWMFreq(PreMachine, local[a].freq) EXCEPT !.log = <<>>],
               local[b].freq)

\* C18: two setPWMFreq calls that run one after the other never write the
\* prescale register while SLEEP is clear, and leave the registers that the
\* two calls in that order leave; the driver takes no lock, and an
\* interleaving of the two calls at transaction granularity (the witness)
\* writes the prescale register while the chip is awake.
SerialCallsKeepProtocol ==
    Serialized =>
        /\ ~PrescaleWrittenAwake
        /\ (\A t \in Threads : pc[t] = "done") =>
               \E a \in Threads : \E b \in Threads \ {a} :
                   /\ sched[1] = a
                   /\ regs = SerialOutcome(a, b).regs
                   /\ SubSeq(log, Len(log) - 6, Len(log))
                          = SerialOutcome(a, b).log

SerialCallsKeepProtocolWitness ==
    /\ ~Serialized
    /\ PrescaleWrittenAwake
    /\ \A t \in Threads : pc[t] = "done"

(* The telemetry threads (checked under SpecTelemetry, SpecTelemetryFair). *)

\* C19: the publisher never reads data while the sampler is clearing or
\* refilling it, so the sample set it publishes is never partially filled:
\* it is empty or holds every channel of daq_chan.
DataAccessExclusive ==
    /\ ~(pc["publisher"] = "iterate" /\ pc["sampler"] \in {"clear", "fill"})
    /\ pc["publisher"] = "publish" =>
           local["publisher"].json_data \in {<<>>, daq_chan}

\* C20: under fair scheduling each loop reaches its sleep again and again
\* (the sampler refills data and the publisher publishes infinitely often);
\* neither thread waits forever for _data_access, the second lock object of
\* its loop body included.
TelemetryProgress ==
    /\ []<>(pc["sampler"] = "sleep")
    /\ []<>(pc["publisher"] = "sleep")

=============================================================================
